---- MODULE Spec2Model ----
(***************************************************************************)
(* A model of calc.py of mbd-vv: the crystal builder get_crystal, the      *)
(* force-occupation enumerator get_force_occs and the two output parsers   *)
(* get_energy and get_volumes.  Each function is a call that starts from   *)
(* the idle state with arguments drawn from bounded sets; the parsers are  *)
(* modelled line by line, because both of their scans share one file       *)
(* iterator.                                                               *)
(***************************************************************************)
EXTENDS Integers, Sequences, FiniteSets, TLC

VARIABLES fn, args, result, f, pos, pc, free, ratios

vars == <<fn, args, result, f, pos, pc, free, ratios>>

(***************************************************************************)
(* Bounds of the model.                                                    *)
(***************************************************************************)
MaxA == 4
MaxSpecies == 2
MaxShells == 2
MaxLines == 5

(***************************************************************************)
(* Outcomes of a call: a returned value or a raised exception.             *)
(***************************************************************************)
NoResult == [kind |-> "none"]
Return(v) == [kind |-> "return", value |-> v]
Raise(e) == [kind |-> "raise", error |-> e]

(***************************************************************************)
(* Python numbers.  A float is kept as an exact fraction num/den in lowest *)
(* terms with den > 0; nan is a value of its own.                          *)
(***************************************************************************)
Abs(x) == IF x < 0 THEN -x ELSE x

RECURSIVE GCD(_, _)
GCD(x, y) == IF y = 0 THEN x ELSE GCD(y, x % y)

Num(n, d) ==
    LET g == GCD(Abs(n), Abs(d))
        s == IF d < 0 THEN -1 ELSE 1
    IN  [nan |-> FALSE, num |-> s * (n \div g), den |-> s * (d \div g)]

NaN == [nan |-> TRUE, num |-> 0, den |-> 1]

\* x / k for a number x and a non-zero integer literal k
DivInt(x, k) == IF x.nan THEN NaN ELSE Num(x.num, x.den * k)

\* -x
Neg(x) == IF x.nan THEN NaN ELSE Num(-x.num, x.den)

\* x / y for two floats, y not zero
TrueDiv(x, y) == IF x.nan \/ y.nan THEN NaN ELSE Num(x.num * y.den, x.den * y.num)

Zero == Num(0, 1)

(***************************************************************************)
(* get_crystal                                                             *)
(***************************************************************************)
Atom(specie, xyz) == [specie |-> specie, xyz |-> xyz]

Crystal(atoms, latt_vecs) == [atoms |-> atoms, latt_vecs |-> latt_vecs]

Groups == {"A1", "A2", "A3", "A4", "B1", "B2", "B3"}

Elements == {"Na", "Cl"}

SpeciesLists == UNION {[1..n -> Elements] : n \in 0..MaxSpecies}

Lattices == {Num(a, 1) : a \in 1..MaxA}

\* the lattice vectors, lines 205-208
latt_vecs_of(group, a) ==
    IF group = "A2"
    THEN <<  <<Neg(DivInt(a, 2)), DivInt(a, 2), DivInt(a, 2)>>,
             <<DivInt(a, 2), Neg(DivInt(a, 2)), DivInt(a, 2)>>,
             <<DivInt(a, 2), DivInt(a, 2), Neg(DivInt(a, 2))>>  >>
    ELSE <<  <<Zero, DivInt(a, 2), DivInt(a, 2)>>,
             <<DivInt(a, 2), Zero, DivInt(a, 2)>>,
             <<DivInt(a, 2), DivInt(a, 2), Zero>>  >>

\* get_crystal with a default branch that returns an empty basis
get_crystal_default(group, a, species) ==
    LET latt_vecs == latt_vecs_of(group, a)
        origin == <<Zero, Zero, Zero>>
    IN  IF group \in {"A1", "A2"}
        THEN IF Len(species) < 1 THEN Raise("IndexError")
             ELSE Return(Crystal(<<Atom(species[1], origin)>>, latt_vecs))
        ELSE IF group = "A4"
        THEN IF Len(species) < 1 THEN Raise("IndexError")
             ELSE Return(Crystal(
                    <<Atom(species[1], origin),
                      Atom(species[1], <<DivInt(a, 4), DivInt(a, 4), DivInt(a, 4)>>)>>,
                    latt_vecs))
        ELSE IF group = "B1"
        THEN IF Len(species) < 2 THEN Raise("IndexError")
             ELSE Return(Crystal(
                    <<Atom(species[1], origin),
                      Atom(species[2], <<DivInt(a, 2), DivInt(a, 2), DivInt(a, 2)>>)>>,
                    latt_vecs))
        ELSE IF group = "B3"
        THEN IF Len(species) < 2 THEN Raise("IndexError")
             ELSE Return(Crystal(
                    <<Atom(species[1], origin),
                      Atom(species[2], <<DivInt(a, 4), DivInt(a, 4), DivInt(a, 4)>>)>>,
                    latt_vecs))
        ELSE Return(Crystal(<<>>, latt_vecs))

\* get_crystal with the basis of B1 and B3 exchanged
get_crystal_swapped(group, a, species) ==
    get_crystal_default(
        IF group = "B1" THEN "B3" ELSE IF group = "B3" THEN "B1" ELSE group,
        a, species)

\* get_crystal(group, a, species), lines 204-226.  Python indexes species
\* from 0, the model from 1.  When no branch binds atoms, reading it on line
\* 226 raises UnboundLocalError.
get_crystal(group, a, species) ==
    LET latt_vecs == latt_vecs_of(group, a)
        origin == <<Zero, Zero, Zero>>
    IN  IF group \in {"A1", "A2"}
        THEN IF Len(species) < 1 THEN Raise("IndexError")
             ELSE Return(Crystal(<<Atom(species[1], origin)>>, latt_vecs))
        ELSE IF group = "A4"
        THEN IF Len(species) < 1 THEN Raise("IndexError")
             ELSE Return(Crystal(
                    <<Atom(species[1], origin),
                      Atom(species[1], <<DivInt(a, 4), DivInt(a, 4), DivInt(a, 4)>>)>>,
                    latt_vecs))
        ELSE IF group = "B1"
        THEN IF Len(species) < 2 THEN Raise("IndexError")
             ELSE Return(Crystal(
                    <<Atom(species[1], origin),
                      Atom(species[2], <<DivInt(a, 2), DivInt(a, 2), DivInt(a, 2)>>)>>,
                    latt_vecs))
        ELSE IF group = "B3"
        THEN IF Len(species) < 2 THEN Raise("IndexError")
             ELSE Return(Crystal(
                    <<Atom(species[1], origin),
                      Atom(species[2], <<DivInt(a, 4), DivInt(a, 4), DivInt(a, 4)>>)>>,
                    latt_vecs))
        ELSE Raise("UnboundLocalError")

(***************************************************************************)
(* get_force_occs                                                          *)
(***************************************************************************)
\* orb = 'spdf', line 170
orb == <<"s", "p", "d", "f">>

DigitChars == <<"0", "1", "2", "3", "4", "5", "6", "7", "8", "9">>

\* str.index: the 0-based position of the first occurrence of c in s
IndexOf(s, c) == (CHOOSE i \in 1..Len(s) : s[i] = c /\ \A j \in 1..(i - 1) : s[j] # c) - 1

\* int() of a non-empty sequence of decimal digit characters
RECURSIVE ParseInt(_)
ParseInt(cs) ==
    IF Len(cs) = 1 THEN IndexOf(DigitChars, cs[1])
    ELSE 10 * ParseInt(SubSeq(cs, 1, Len(cs) - 1)) + IndexOf(DigitChars, cs[Len(cs)])

\* one element of shells, lines 172: a token is a sequence of characters,
\* shell[0] the digit of n, shell[1] the orbital letter, shell[2:] the
\* occupancy, 1 when it is left out
ParseShell(shell) ==
    [n |-> ParseInt(<<shell[1]>>),
     l |-> IndexOf(orb, shell[2]),
     occ |-> IF Len(shell) = 2 THEN 1 ELSE ParseInt(SubSeq(shell, 3, Len(shell)))]

shells_of(conf) == [i \in 1..Len(conf) |-> ParseShell(conf[i])]

\* nmaxocc counted once per spin sub-shell instead of once per shell
RECURSIVE nmaxocc_per_spin(_)
nmaxocc_per_spin(shells) ==
    IF shells = <<>> THEN 0
    ELSE LET sh == Head(shells)
         IN  (IF sh.occ > 2 * sh.l + 1 THEN 2 ELSE 1) * (2 * sh.l + 1)
                + nmaxocc_per_spin(Tail(shells))

\* nmaxocc, line 175
RECURSIVE nmaxocc_of(_)
nmaxocc_of(shells) ==
    IF shells = <<>> THEN 0
    ELSE (2 * Head(shells).l + 1) + nmaxocc_of(Tail(shells))

Min(x, y) == IF x < y THEN x ELSE y

SpinShell(n, l, spin, occ) == [n |-> n, l |-> l, spin |-> spin, occ |-> occ]

\* the spin loop without its break: every shell gets both sub-shells
SplitShellBoth(sh) ==
    LET up == Min(sh.occ, 2 * sh.l + 1)
        down == Min(sh.occ - up, 2 * sh.l + 1)
    IN  <<SpinShell(sh.n, sh.l, 1, up), SpinShell(sh.n, sh.l, 2, down)>>

\* the spin loop with the break taken when the sub-shell is empty
SplitShellBreakOnEmpty(sh) ==
    LET up == Min(sh.occ, 2 * sh.l + 1)
        down == Min(sh.occ - up, 2 * sh.l + 1)
    IN  IF up = 0
        THEN <<SpinShell(sh.n, sh.l, 1, up)>>
        ELSE <<SpinShell(sh.n, sh.l, 1, up), SpinShell(sh.n, sh.l, 2, down)>>

\* the loop over spin in (1, 2) for one shell, lines 178-183: the second
\* sub-shell is appended only when electrons are left after the first
SplitShell(sh) ==
    LET up == Min(sh.occ, 2 * sh.l + 1)
        rest == sh.occ - up
        down == Min(rest, 2 * sh.l + 1)
    IN  IF rest = 0
        THEN <<SpinShell(sh.n, sh.l, 1, up)>>
        ELSE <<SpinShell(sh.n, sh.l, 1, up), SpinShell(sh.n, sh.l, 2, down)>>

\* spin_shells, lines 176-183
RECURSIVE spin_shells_of(_)
spin_shells_of(shells) ==
    IF shells = <<>> THEN <<>>
    ELSE SplitShell(Head(shells)) \o spin_shells_of(Tail(shells))

\* one directive, lines 191 and 199
Directive(spin, n, l, m, nmaxocc) == <<1, spin, "atomic", n, l, m, 1, nmaxocc>>

\* range(lo, hi) as a sequence
Range(lo, hi) == [i \in 1..(IF hi > lo THEN hi - lo ELSE 0) |-> lo + i - 1]

\* the directives of a filled sub-shell with m running downwards
FilledDirectivesDown(ss, nmaxocc) ==
    [i \in 1..(2 * ss.l + 1) |-> Directive(ss.spin, ss.n, ss.l, ss.l + 1 - i, nmaxocc)]

\* the directives of one filled sub-shell, lines 190-191
FilledDirectives(ss, nmaxocc) ==
    LET ms == Range(-ss.l, ss.l + 1)
    IN  [i \in 1..Len(ms) |-> Directive(ss.spin, ss.n, ss.l, ms[i], nmaxocc)]

\* the test of line 187
IsUnfilled(ss) == ss.occ < 2 * ss.l + 1

\* unfilled, lines 185-189: the 1-based indices of the unfilled sub-shells
unfilled_of(spin_shells) ==
    LET RECURSIVE Scan(_)
        Scan(i) ==
            IF i > Len(spin_shells) THEN <<>>
            ELSE (IF IsUnfilled(spin_shells[i]) THEN <<i>> ELSE <<>>) \o Scan(i + 1)
    IN  Scan(1)

\* force_occs, lines 184-191
force_occs_of(spin_shells, nmaxocc) ==
    LET RECURSIVE Scan(_)
        Scan(i) ==
            IF i > Len(spin_shells) THEN <<>>
            ELSE (IF IsUnfilled(spin_shells[i]) THEN <<>>
                  ELSE FilledDirectives(spin_shells[i], nmaxocc)) \o Scan(i + 1)
    IN  Scan(1)

\* combinations emitted with the last ones first
RECURSIVE CombinationsReversed(_, _)
CombinationsReversed(pool, r) ==
    IF r = 0 THEN << <<>> >>
    ELSE IF Len(pool) < r THEN <<>>
    ELSE LET rest == CombinationsReversed(Tail(pool), r - 1)
         IN  CombinationsReversed(Tail(pool), r)
               \o [i \in 1..Len(rest) |-> <<Head(pool)>> \o rest[i]]

\* itertools.combinations(pool, r), called on line 197: the r-length
\* subsequences of pool, in lexicographic order of their positions
RECURSIVE Combinations(_, _)
Combinations(pool, r) ==
    IF r = 0 THEN << <<>> >>
    ELSE IF Len(pool) < r THEN <<>>
    ELSE LET rest == Combinations(Tail(pool), r - 1)
         IN  [i \in 1..Len(rest) |-> <<Head(pool)>> \o rest[i]]
               \o Combinations(Tail(pool), r)

\* ','.join(map(str, ms)), line 198
RECURSIVE Label(_)
Label(ms) ==
    IF ms = <<>> THEN ""
    ELSE IF Len(ms) = 1 THEN ToString(ms[1])
    ELSE ToString(ms[1]) \o "," \o Label(Tail(ms))

\* d[key] = value on a dict kept as the sequence of its items in insertion
\* order: an existing key keeps its place
DictSet(d, key, value) ==
    IF \E i \in 1..Len(d) : d[i].key = key
    THEN [i \in 1..Len(d) |-> IF d[i].key = key THEN [key |-> key, value |-> value] ELSE d[i]]
    ELSE Append(d, [key |-> key, value |-> value])

\* the loop of lines 196-200
all_force_occs_of(ss, force_occs, nmaxocc) ==
    LET combs == Combinations(Range(-ss.l, ss.l + 1), ss.occ)
        RECURSIVE Fill(_, _)
        Fill(d, i) ==
            IF i > Len(combs) THEN d
            ELSE LET ms == combs[i]
                 IN  Fill(DictSet(d, Label(ms),
                            force_occs \o [k \in 1..Len(ms) |->
                                Directive(ss.spin, ss.n, ss.l, ms[k], nmaxocc)]),
                          i + 1)
    IN  Fill(<<>>, 1)

\* get_force_occs without the assertion of line 192
get_force_occs_unchecked(conf) ==
    LET shells == shells_of(conf)
        nmaxocc == nmaxocc_of(shells)
        spin_shells == spin_shells_of(shells)
        force_occs == force_occs_of(spin_shells, nmaxocc)
        unfilled == unfilled_of(spin_shells)
    IN  IF Len(unfilled) = 0
        THEN Return(<<[key |-> "-", value |-> force_occs]>>)
        ELSE Return(all_force_occs_of(spin_shells[unfilled[1]], force_occs, nmaxocc))

\* get_force_occs(conf), lines 169-201
get_force_occs(conf) ==
    LET shells == shells_of(conf)
        nmaxocc == nmaxocc_of(shells)
        spin_shells == spin_shells_of(shells)
        force_occs == force_occs_of(spin_shells, nmaxocc)
        unfilled == unfilled_of(spin_shells)
    IN  IF ~(Len(unfilled) <= 1) THEN Raise("AssertionError")
        ELSE IF Len(unfilled) = 0
        THEN Return(<<[key |-> "-", value |-> force_occs]>>)
        ELSE Return(all_force_occs_of(spin_shells[unfilled[1]], force_occs, nmaxocc))

\* the decimal digits of k >= 0
RECURSIVE Digits(_)
Digits(k) ==
    IF k < 10 THEN <<DigitChars[k + 1]>>
    ELSE Digits(k \div 10) \o <<DigitChars[(k % 10) + 1]>>

\* the shell tokens the calls are made with: n in {1, 2}, the letters s, p
\* and d, and every occupancy from 0 to one more than the shell holds, or
\* none
ShellTokens ==
    UNION { { <<nc, orb[l + 1]>> \o occ :
                occ \in {<<>>} \cup {Digits(k) : k \in 0..(2 * (2 * l + 1) + 1)} } :
            nc \in {"1", "2"}, l \in {0, 1, 2} }

Confs == UNION {[1..k -> ShellTokens] : k \in 0..MaxShells}

(***************************************************************************)
(* The output parsers.  A line of the output file is kept as the sequence  *)
(* of its whitespace-separated tokens, which is what split() returns; a    *)
(* blank line is the empty sequence, and a text occurs in a line when its  *)
(* tokens occur there side by side.                                        *)
(***************************************************************************)
\* pat in line, lines 148, 157, 161 and 163
Contains(line, pat) ==
    \E i \in 1..(Len(line) - Len(pat) + 1) : SubSeq(line, i, i + Len(pat) - 1) = pat

\* float(tok) for a token that is an integer literal; other tokens raise
\* ValueError
IsFloatLiteral(tok) == \E k \in -99..99 : ToString(k) = tok

ParseFloat(tok) == Num(CHOOSE k \in -99..99 : ToString(k) = tok, 1)

\* the literal of line 147
ConvergedLine == <<"Self-consistency", "cycle", "converged.">>

\* the text of line 148
EnergyText == <<"Total", "energy", "uncorrected">>

\* the texts of lines 157, 161 and 163
HirshfeldText == <<"Performing", "Hirshfeld", "analysis">>

FreeVolumeText == <<"Free", "atom", "volume">>

HirshfeldVolumeText == <<"Hirshfeld", "volume">>

\* the marker test with containment in place of equality
IsConvergedLineContained(line) == Contains(line, ConvergedLine)

\* the condition of the generator of line 147
IsConvergedLine(line) == line = ConvergedLine

\* float(line.split()[5]), line 148
EnergyOf(line) ==
    IF Len(line) < 6 THEN Raise("IndexError")
    ELSE IF ~IsFloatLiteral(line[6]) THEN Raise("ValueError")
    ELSE Return(ParseFloat(line[6]))

\* a loop that never takes the break of line 160
IsBlankNever(line) == FALSE

\* not line.strip(), line 159
IsBlank(line) == line = <<>>

\* the lines the energy scan is run on
EnergyLines ==
    { ConvergedLine,
      <<"|", "Self-consistency", "cycle", "converged.">>,
      <<"|", "Total", "energy", "uncorrected", ":", "-1", "Ha", "-27", "eV">>,
      <<"|", "Total", "energy", "uncorrected", ":", "-2", "Ha", "-54", "eV">>,
      <<"Total", "energy", "uncorrected", ":", "-3">>,
      <<"Total", "energy", "uncorrected", ":", "-3", "Ha">>,
      <<"|", "Total", "energy", "corrected", ":", "-4", "Ha", "-99", "eV">> }

\* the lines the volume scan is run on
VolumeLines ==
    { <<"Performing", "Hirshfeld", "analysis", "of", "fragment", "charges">>,
      <<>>,
      <<"|", "Free", "atom", "volume", ":", "0">>,
      <<"|", "Free", "atom", "volume", ":", "2">>,
      <<"|", "Hirshfeld", "volume", ":", "3">>,
      <<"|", "Hirshfeld", "volume", ":", "4">>,
      <<"|", "Hirshfeld", "charge", ":", "1">> }

FilesOf(Lines) == UNION {[1..k -> Lines] : k \in 0..MaxLines}

(***************************************************************************)
(* The state machine: one call at a time, from the idle state.             *)
(***************************************************************************)
Init ==
    /\ fn = "none"
    /\ args = <<>>
    /\ result = NoResult
    /\ f = <<>>
    /\ pos = 0
    /\ pc = "idle"
    /\ free = [bound |-> FALSE, value |-> Zero]
    /\ ratios = <<>>

CallGetCrystal ==
    /\ pc = "idle"
    /\ \E group \in Groups, a \in Lattices, species \in SpeciesLists :
         /\ fn' = "get_crystal"
         /\ args' = [group |-> group, a |-> a, species |-> species]
         /\ result' = get_crystal(group, a, species)
    /\ pc' = "done"
    /\ UNCHANGED <<f, pos, free, ratios>>

NextCrystal == CallGetCrystal

SpecCrystal == Init /\ [][NextCrystal]_vars

CallGetForceOccs ==
    /\ pc = "idle"
    /\ \E conf \in Confs :
         /\ fn' = "get_force_occs"
         /\ args' = [conf |-> conf]
         /\ result' = get_force_occs(conf)
    /\ pc' = "done"
    /\ UNCHANGED <<f, pos, free, ratios>>

NextOccs == CallGetForceOccs

SpecOccs == Init /\ [][NextOccs]_vars

\* get_energy(output): open(output), line 146
OpenEnergy ==
    /\ pc = "idle"
    /\ \E output \in FilesOf(EnergyLines) :
         /\ args' = [output |-> output]
         /\ f' = output
    /\ fn' = "get_energy"
    /\ pos' = 0
    /\ pc' = "seek_converged"
    /\ UNCHANGED <<result, free, ratios>>

\* one step of the generator of line 147: the next line of f is read, and
\* next() raises StopIteration when f is exhausted
EnergySeekConverged ==
    /\ pc = "seek_converged"
    /\ IF pos = Len(f)
       THEN /\ result' = Raise("StopIteration")
            /\ pc' = "done"
            /\ pos' = pos
       ELSE /\ pos' = pos + 1
            /\ pc' = IF IsConvergedLine(f[pos + 1]) THEN "seek_energy" ELSE pc
            /\ result' = result
    /\ UNCHANGED <<fn, args, f, free, ratios>>

\* one step of the generator of line 148, on the same iterator f
EnergySeekTotal ==
    /\ pc = "seek_energy"
    /\ IF pos = Len(f)
       THEN /\ result' = Raise("StopIteration")
            /\ pc' = "done"
            /\ pos' = pos
       ELSE /\ pos' = pos + 1
            /\ IF Contains(f[pos + 1], EnergyText)
               THEN /\ result' = EnergyOf(f[pos + 1])
                    /\ pc' = "done"
               ELSE /\ result' = result
                    /\ pc' = pc
    /\ UNCHANGED <<fn, args, f, free, ratios>>

NextEnergy == OpenEnergy \/ EnergySeekConverged \/ EnergySeekTotal

SpecEnergy == Init /\ [][NextEnergy]_vars

\* get_volumes(output): ratios = [] and open(output), lines 155-156
OpenVolumes ==
    /\ pc = "idle"
    /\ \E output \in FilesOf(VolumeLines) :
         /\ args' = [output |-> output]
         /\ f' = output
    /\ fn' = "get_volumes"
    /\ pos' = 0
    /\ ratios' = <<>>
    /\ pc' = "seek_hirshfeld"
    /\ UNCHANGED <<result, free>>

\* one step of the generator of line 157
VolumesSeekSection ==
    /\ pc = "seek_hirshfeld"
    /\ IF pos = Len(f)
       THEN /\ result' = Raise("StopIteration")
            /\ pc' = "done"
            /\ pos' = pos
       ELSE /\ pos' = pos + 1
            /\ pc' = IF Contains(f[pos + 1], HirshfeldText) THEN "loop" ELSE pc
            /\ result' = result
    /\ UNCHANGED <<fn, args, f, free, ratios>>

\* one pass of the loop of lines 158-165, or its end and the return of
\* line 166.  free is a local that line 162 binds; line 165 reads it.
VolumesLoop ==
    /\ pc = "loop"
    /\ IF pos = Len(f)
       THEN /\ result' = Return(ratios)
            /\ pc' = "done"
            /\ UNCHANGED <<pos, free, ratios>>
       ELSE LET line == f[pos + 1]
                last == line[Len(line)]
            IN  /\ pos' = pos + 1
                /\ IF IsBlank(line)
                   THEN /\ result' = Return(ratios)
                        /\ pc' = "done"
                        /\ UNCHANGED <<free, ratios>>
                   ELSE IF Contains(line, FreeVolumeText)
                   THEN IF ~IsFloatLiteral(last)
                        THEN /\ result' = Raise("ValueError")
                             /\ pc' = "done"
                             /\ UNCHANGED <<free, ratios>>
                        ELSE /\ free' = [bound |-> TRUE,
                                         value |-> IF ParseFloat(last) = Zero
                                                   THEN NaN ELSE ParseFloat(last)]
                             /\ UNCHANGED <<result, pc, ratios>>
                   ELSE IF Contains(line, HirshfeldVolumeText)
                   THEN IF ~IsFloatLiteral(last)
                        THEN /\ result' = Raise("ValueError")
                             /\ pc' = "done"
                             /\ UNCHANGED <<free, ratios>>
                        ELSE IF ~free.bound
                        THEN /\ result' = Raise("UnboundLocalError")
                             /\ pc' = "done"
                             /\ UNCHANGED <<free, ratios>>
                        ELSE /\ ratios' = Append(ratios, TrueDiv(ParseFloat(last), free.value))
                             /\ UNCHANGED <<result, pc, free>>
                   ELSE UNCHANGED <<result, pc, free, ratios>>
    /\ UNCHANGED <<fn, args, f>>

NextVolumes == OpenVolumes \/ VolumesSeekSection \/ VolumesLoop

SpecVolumes == Init /\ [][NextVolumes]_vars

(***************************************************************************)
(* Claims about get_crystal.                                               *)
(***************************************************************************)
Supported == {"A1", "A2", "A4", "B1", "B3"}

RequiredSpecies(group) == IF group \in {"B1", "B3"} THEN 2 ELSE 1

\* c is the number p*a/q
IsMultiple(c, p, q, a) == ~c.nan /\ c.num * q * a.den = p * a.num * c.den

\* v is the vector (p[1]*a/q, p[2]*a/q, p[3]*a/q)
IsVector(v, p, q, a) ==
    /\ Len(v) = 3
    /\ \A i \in 1..3 : IsMultiple(v[i], p[i], q, a)

\* at is an atom of the given element at (p*a/q, p*a/q, p*a/q)
IsAtomAt(at, specie, p, q, a) ==
    /\ at.specie = specie
    /\ IsVector(at.xyz, <<p, p, p>>, q, a)

CrystalDone == pc = "done" /\ fn = "get_crystal"

\* C1: for a supported prototype and a species list long enough for it,
\* get_crystal returns the body-centred vectors for A2 and the face-centred
\* vectors otherwise, and exactly the documented atoms in the documented order.
C1_CrystalGeometry ==
    (CrystalDone /\ args.group \in Supported
                 /\ Len(args.species) >= RequiredSpecies(args.group)) =>
        /\ result.kind = "return"
        /\ LET lv == result.value.latt_vecs
               atoms == result.value.atoms
               a == args.a
               sp == args.species
           IN  /\ Len(lv) = 3
               /\ IF args.group = "A2"
                  THEN /\ IsVector(lv[1], <<-1, 1, 1>>, 2, a)
                       /\ IsVector(lv[2], <<1, -1, 1>>, 2, a)
                       /\ IsVector(lv[3], <<1, 1, -1>>, 2, a)
                  ELSE /\ IsVector(lv[1], <<0, 1, 1>>, 2, a)
                       /\ IsVector(lv[2], <<1, 0, 1>>, 2, a)
                       /\ IsVector(lv[3], <<1, 1, 0>>, 2, a)
               /\ Len(atoms) = (IF args.group \in {"A1", "A2"} THEN 1 ELSE 2)
               /\ IsAtomAt(atoms[1], sp[1], 0, 1, a)
               /\ args.group = "A4" => IsAtomAt(atoms[2], sp[1], 1, 4, a)
               /\ args.group = "B1" => IsAtomAt(atoms[2], sp[2], 1, 2, a)
               /\ args.group = "B3" => IsAtomAt(atoms[2], sp[2], 1, 4, a)

\* a zinc-blende cell of two different elements with an odd lattice constant
C1_Witness ==
    /\ CrystalDone
    /\ args.group = "B3"
    /\ args.a = Num(3, 1)
    /\ args.species = <<"Na", "Cl">>
    /\ result.kind = "return"
    /\ result.value.atoms[2] = Atom("Cl", <<Num(3, 4), Num(3, 4), Num(3, 4)>>)

\* C2: for a prototype outside the supported set get_crystal ends in an error
\* and returns no Crystal, whatever the lattice constant and the species are.
C2_UnsupportedPrototypeFails ==
    (CrystalDone /\ args.group \notin Supported) =>
        /\ result.kind = "raise"
        /\ result.error = "UnboundLocalError"

\* an unsupported prototype called with a complete species list
C2_Witness ==
    /\ CrystalDone
    /\ args.group = "B2"
    /\ Len(args.species) = 2
    /\ result.kind = "raise"

(***************************************************************************)
(* Claims about get_force_occs.                                            *)
(***************************************************************************)
OccsDone == pc = "done" /\ fn = "get_force_occs"

\* the spin sub-shells of the configuration of the call
SubShells == spin_shells_of(shells_of(args.conf))

\* the positions of the sub-shells of ss that hold fewer than 2l+1 electrons
UnfilledIn(ss) == {i \in 1..Len(ss) : ss[i].occ < 2 * ss[i].l + 1}

UnfilledSet == LET ss == SubShells IN UnfilledIn(ss)

TheUnfilled == LET ss == SubShells IN ss[CHOOSE i \in UnfilledIn(ss) : TRUE]

RECURSIVE Binomial(_, _)
Binomial(n, k) ==
    IF k = 0 THEN 1
    ELSE IF n = 0 THEN 0
    ELSE Binomial(n - 1, k - 1) + Binomial(n - 1, k)

\* the occ-element subsets of {-l, ..., l}
MSubsets(l, occ) == {S \in SUBSET (-l..l) : Cardinality(S) = occ}

\* the elements of a set of integers in ascending order
Ascending(S) ==
    CHOOSE q \in [1..Cardinality(S) -> S] :
        \A i, j \in 1..Cardinality(S) : i < j => q[i] < q[j]

SetMin(S) == CHOOSE x \in S : \A y \in S : x <= y

\* S comes before T in the lexicographic order of their ascending listings
LexBefore(S, T) == S # T /\ SetMin((S \ T) \cup (T \ S)) \in S

\* the place of S among the sets of All, 1 for the first
LexRank(S, All) == Cardinality({T \in All : LexBefore(T, S)}) + 1

\* the numbers of q written in decimal and separated by commas
CommaJoined(q) ==
    LET RECURSIVE Upto(_)
        Upto(k) == IF k = 0 THEN ""
                   ELSE IF k = 1 THEN ToString(q[1])
                   ELSE Upto(k - 1) \o "," \o ToString(q[k])
    IN  Upto(Len(q))

\* C3: the labels are fixed by the unfilled spin sub-shells: without one the
\* only label is "-"; with exactly one, of occupancy occ, there is one entry
\* for each occ-element subset of {-l, ..., l}, C(2l+1, occ) in all, labelled
\* by its m values in ascending order joined with commas, and the entries
\* stand in the lexicographic order of the subsets.
C3_LabelsOfCombinations ==
    OccsDone =>
      LET unf == UnfilledSet
      IN
        /\ unf = {} =>
             /\ result.kind = "return"
             /\ Len(result.value) = 1
             /\ result.value[1].key = "-"
        /\ Cardinality(unf) = 1 =>
             LET u == TheUnfilled
                 All == MSubsets(u.l, u.occ)
             IN  /\ result.kind = "return"
                 /\ Len(result.value) = Binomial(2 * u.l + 1, u.occ)
                 /\ \A S \in All :
                        LET r == LexRank(S, All)
                        IN  /\ r \in 1..Len(result.value)
                            /\ result.value[r].key = CommaJoined(Ascending(S))
                 /\ u.occ = 0 => result.value[1].key = ""

\* two electrons in a d shell: ten labels, "-2,-1" first and "1,2" last
C3_Witness ==
    /\ OccsDone
    /\ Cardinality(UnfilledSet) = 1
    /\ TheUnfilled.l = 2
    /\ TheUnfilled.occ = 2
    /\ result.kind = "return"
    /\ Len(result.value) = 10
    /\ result.value[1].key = "-2,-1"
    /\ result.value[10].key = "1,2"

\* the sum of 2l+1 over the shell tokens of the configuration
Capacity ==
    LET RECURSIVE Upto(_)
        Upto(k) == IF k = 0 THEN 0
                   ELSE Upto(k - 1) + 2 * ParseShell(args.conf[k]).l + 1
    IN  Upto(Len(args.conf))

\* the directives of the filled sub-shells among ss[1..k], one per m from
\* -l to l, with the denominator cap
RECURSIVE FilledPrefix(_, _, _)
FilledPrefix(ss, k, cap) ==
    IF k = 0 THEN <<>>
    ELSE FilledPrefix(ss, k - 1, cap) \o
               (IF ss[k].occ < 2 * ss[k].l + 1 THEN <<>>
                ELSE [i \in 1..(2 * ss[k].l + 1) |->
                        <<1, ss[k].spin, "atomic", ss[k].n, ss[k].l,
                          i - ss[k].l - 1, 1, cap>>])

\* the shells have distinct (n, l) and hold between 0 and 2(2l+1) electrons
WellFormedConf ==
    LET sh == shells_of(args.conf)
    IN  /\ \A i, j \in 1..Len(sh) : i # j => <<sh[i].n, sh[i].l>> # <<sh[j].n, sh[j].l>>
        /\ \A i \in 1..Len(sh) : sh[i].occ \in 0..(2 * (2 * sh[i].l + 1))

\* C4: for a well-formed configuration with exactly one unfilled sub-shell,
\* every entry is the common prefix (the directives of the filled sub-shells
\* in configuration order, m ascending) followed by one directive for each m
\* of its own combination with the n, l and spin of the unfilled sub-shell,
\* and no entry names the same (spin, n, l, m) twice.
C4_PrefixAndSuffix ==
    (OccsDone /\ WellFormedConf /\ Cardinality(UnfilledSet) = 1) =>
        LET u == TheUnfilled
            cap == Capacity
            subs == SubShells
            prefix == FilledPrefix(subs, Len(subs), cap)
            All == MSubsets(u.l, u.occ)
        IN  /\ result.kind = "return"
            /\ \A S \in All :
                 LET e == result.value[LexRank(S, All)].value
                     ms == Ascending(S)
                 IN  /\ Len(e) = Len(prefix) + u.occ
                     /\ SubSeq(e, 1, Len(prefix)) = prefix
                     /\ \A k \in 1..u.occ :
                          e[Len(prefix) + k] =
                            <<1, u.spin, "atomic", u.n, u.l, ms[k], 1, cap>>
                     /\ \A i, j \in 1..Len(e) :
                          i # j => <<e[i][2], e[i][4], e[i][5], e[i][6]>>
                                     # <<e[j][2], e[j][4], e[j][5], e[j][6]>>

\* a full 1s shell and four electrons in 2p: the prefix holds five
\* directives and each of the three entries adds one spin-down directive
C4_Witness ==
    /\ OccsDone
    /\ args.conf = << <<"1", "s", "2">>, <<"2", "p", "4">> >>
    /\ result.kind = "return"
    /\ Len(result.value) = 3
    /\ Len(result.value[2].value) = 6
    /\ result.value[2].value[6] = <<1, 2, "atomic", 2, 1, 0, 1, 4>>

\* C5 as stated: get_force_occs(["2p1"]) fails with the assertion error
C5_Original_2p1Fails ==
    (OccsDone /\ args.conf = << <<"2", "p", "1">> >>) =>
        /\ result.kind = "raise"
        /\ Cardinality(UnfilledSet) = 2

\* C5 amended: for ["2p1"] the spin split stops after the spin-up sub-shell,
\* which is the only unfilled one, and the call returns the three entries
\* "-1", "0" and "1", each with its single spin-up directive.
C5_Amended_2p1ThreeEntries ==
    (OccsDone /\ args.conf = << <<"2", "p", "1">> >>) =>
        /\ SubShells = <<[n |-> 2, l |-> 1, spin |-> 1, occ |-> 1]>>
        /\ result = [kind |-> "return", value |->
             << [key |-> "-1", value |-> << <<1, 1, "atomic", 2, 1, -1, 1, 3>> >>],
                [key |-> "0", value |-> << <<1, 1, "atomic", 2, 1, 0, 1, 3>> >>],
                [key |-> "1", value |-> << <<1, 1, "atomic", 2, 1, 1, 1, 3>> >>] >>]

\* the call on ["2p1"] has returned
C5_Witness ==
    /\ OccsDone
    /\ args.conf = << <<"2", "p", "1">> >>
    /\ result.kind = "return"
    /\ Len(result.value) = 3

\* C6 as stated: get_force_occs(["2p3"]) has a zero-occupancy spin-down
\* sub-shell and returns one entry labelled ""
C6_Original_2p3EmptyLabel ==
    (OccsDone /\ args.conf = << <<"2", "p", "3">> >>) =>
        /\ result.kind = "return"
        /\ Len(result.value) = 1
        /\ result.value[1].key = ""

\* C6 amended: for ["2p3"] the spin split yields the filled spin-up
\* sub-shell only, nothing is unfilled, and the result is the single entry
\* "-" with the three spin-up directives.
C6_Amended_2p3Dash ==
    (OccsDone /\ args.conf = << <<"2", "p", "3">> >>) =>
        /\ SubShells = <<[n |-> 2, l |-> 1, spin |-> 1, occ |-> 3]>>
        /\ UnfilledSet = {}
        /\ result = [kind |-> "return", value |->
             << [key |-> "-", value |->
                   << <<1, 1, "atomic", 2, 1, -1, 1, 3>>,
                      <<1, 1, "atomic", 2, 1, 0, 1, 3>>,
                      <<1, 1, "atomic", 2, 1, 1, 1, 3>> >>] >>]

\* the call on ["2p3"] has returned a single entry
C6_Witness ==
    /\ OccsDone
    /\ args.conf = << <<"2", "p", "3">> >>
    /\ result.kind = "return"
    /\ Len(result.value) = 1
    /\ Len(result.value[1].value) = 3

\* C7: every directive of every entry is (1, spin, 'atomic', n, l, m, 1,
\* nmaxocc) with spin 1 or 2, m between -l and l, (n, l) a shell of the
\* configuration and nmaxocc the sum of 2l+1 over the shell tokens.
C7_DirectiveShape ==
    (OccsDone /\ result.kind = "return") =>
      LET cap == Capacity
          sh == shells_of(args.conf)
      IN
        \A i \in 1..Len(result.value) :
            \A k \in 1..Len(result.value[i].value) :
                LET d == result.value[i].value[k]
                IN  /\ Len(d) = 8
                    /\ d[1] = 1
                    /\ d[2] \in {1, 2}
                    /\ d[3] = "atomic"
                    /\ \E j \in 1..Len(sh) : sh[j].n = d[4] /\ sh[j].l = d[5]
                    /\ -d[5] <= d[6] /\ d[6] <= d[5]
                    /\ d[7] = 1
                    /\ d[8] = cap

\* a full p shell beside an open d shell: the denominator is 3 + 5
C7_Witness ==
    /\ OccsDone
    /\ args.conf = << <<"2", "p", "6">>, <<"1", "d", "7">> >>
    /\ result.kind = "return"
    /\ result.value[1].value[1][8] = 8
    /\ Len(result.value[1].value) = 13

\* C8: the call fails exactly when more than one spin sub-shell holds fewer
\* than 2l+1 electrons; a returned mapping means at most one is unfilled.
C8_AtMostOneUnfilled ==
    OccsDone =>
      LET unf == UnfilledSet
      IN
        /\ Cardinality(unf) > 1 =>
             result.kind = "raise" /\ result.error = "AssertionError"
        /\ result.kind = "return" => Cardinality(unf) <= 1

\* two open shells: the assertion fails
C8_Witness ==
    /\ OccsDone
    /\ args.conf = << <<"2", "p", "1">>, <<"1", "d", "1">> >>
    /\ Cardinality(UnfilledSet) = 2
    /\ result.kind = "raise"

(***************************************************************************)
(* Claims about get_energy.                                                *)
(***************************************************************************)
EnergyDone == pc = "done" /\ fn = "get_energy"

SetMinimum(S) == CHOOSE x \in S : \A y \in S : x <= y

\* the positions of the lines equal to the convergence marker
MarkerLines(lines) ==
    {i \in 1..Len(lines) : lines[i] = <<"Self-consistency", "cycle", "converged.">>}

\* the positions after m of the lines that contain the energy text
EnergyLinesAfter(lines, m) ==
    {j \in (m + 1)..Len(lines) :
        \E i \in 1..(Len(lines[j]) - 2) :
            /\ lines[j][i] = "Total"
            /\ lines[j][i + 1] = "energy"
            /\ lines[j][i + 2] = "uncorrected"}

\* x is the number that the token writes
IsValueOf(x, tok) == ~x.nan /\ x.den = 1 /\ ToString(x.num) = tok

\* C9: get_energy returns the 6th token of the first energy line that lies
\* strictly after the first marker line; energy lines before the marker are
\* never used; the call fails when the marker is absent or no energy line
\* follows it.
C9_EnergyAfterConvergence ==
    EnergyDone =>
        LET lines == args.output
            M == MarkerLines(lines)
        IN  IF M = {}
            THEN result.kind = "raise" /\ result.error = "StopIteration"
            ELSE LET E == EnergyLinesAfter(lines, SetMinimum(M))
                 IN  IF E = {}
                     THEN result.kind = "raise" /\ result.error = "StopIteration"
                     ELSE LET e == SetMinimum(E)
                          IN  /\ pos = e
                              /\ result.kind = "return" =>
                                   IsValueOf(result.value, lines[e][6])
                              /\ (Len(lines[e]) >= 6 /\ IsFloatLiteral(lines[e][6])) =>
                                   result.kind = "return"

\* an energy line before the marker is passed over and the one after it is
\* returned
C9_Witness ==
    /\ EnergyDone
    /\ args.output =
         << <<"|", "Total", "energy", "uncorrected", ":", "-1", "Ha", "-27", "eV">>,
            <<"Self-consistency", "cycle", "converged.">>,
            <<"|", "Total", "energy", "corrected", ":", "-4", "Ha", "-99", "eV">>,
            <<"|", "Total", "energy", "uncorrected", ":", "-2", "Ha", "-54", "eV">> >>
    /\ result = Return(Num(-2, 1))

(***************************************************************************)
(* Claims about get_volumes.                                               *)
(***************************************************************************)
VolumesDone == pc = "done" /\ fn = "get_volumes"

HasText3(line, a, b, c) ==
    \E i \in 1..(Len(line) - 2) : line[i] = a /\ line[i + 1] = b /\ line[i + 2] = c

HasText2(line, a, b) ==
    \E i \in 1..(Len(line) - 1) : line[i] = a /\ line[i + 1] = b

SetMaximum(S) == CHOOSE x \in S : \A y \in S : x >= y

\* the positions of the lines with the analysis marker
SectionMarkers(lines) ==
    {i \in 1..Len(lines) : HasText3(lines[i], "Performing", "Hirshfeld", "analysis")}

\* the position of the first blank line after m, or one past the end
SectionEnd(lines, m) ==
    LET B == {j \in (m + 1)..Len(lines) : lines[j] = <<>>}
    IN  IF B = {} THEN Len(lines) + 1 ELSE SetMinimum(B)

\* the integer that the last token of the line writes
TrailingNumber(line) == CHOOSE k \in -99..99 : ToString(k) = line[Len(line)]

\* C10: when the marker line is present, get_volumes returns one ratio for
\* each Hirshfeld volume line between the first marker and the first blank
\* line after it, in file order, each the line's trailing number over that
\* of the latest Free atom volume line before it in the section, nan when
\* that number is zero; later lines add nothing; the call fails when the
\* marker is absent.
C10_VolumeRatios ==
    VolumesDone =>
        LET lines == args.output
            M == SectionMarkers(lines)
        IN  IF M = {}
            THEN result.kind = "raise" /\ result.error = "StopIteration"
            ELSE LET m == SetMinimum(M)
                     end == SectionEnd(lines, m)
                     F == {j \in (m + 1)..(end - 1) :
                             HasText3(lines[j], "Free", "atom", "volume")}
                     H == {j \in (m + 1)..(end - 1) :
                             HasText2(lines[j], "Hirshfeld", "volume")}
                     FreeBefore(h) == {j \in F : j < h}
                 IN  (\A h \in H : FreeBefore(h) # {}) =>
                       /\ result.kind = "return"
                       /\ Len(result.value) = Cardinality(H)
                       /\ \A h \in H :
                            LET k == Cardinality({j \in H : j <= h})
                                hv == TrailingNumber(lines[h])
                                fv == TrailingNumber(lines[SetMaximum(FreeBefore(h))])
                                r == result.value[k]
                            IN  IF fv = 0 THEN r.nan
                                ELSE ~r.nan /\ r.num * fv = hv * r.den

\* a section with one atom, closed by a blank line, and a volume line after
\* the blank line that is left out
C10_Witness ==
    /\ VolumesDone
    /\ args.output =
         << <<"Performing", "Hirshfeld", "analysis", "of", "fragment", "charges">>,
            <<"|", "Free", "atom", "volume", ":", "2">>,
            <<"|", "Hirshfeld", "volume", ":", "3">>,
            <<>>,
            <<"|", "Hirshfeld", "volume", ":", "4">> >>
    /\ result = Return(<<Num(3, 2)>>)

====
